---- MODULE Spec2Model ----
(***************************************************************************)
(* Record stores of the two single-page applications of the repository:    *)
(* the todo list (src/Todo-Lsit/app/page.tsx, also the first component of   *)
(* src/app/page.tsx) and the wallet (src/unnamed/part_000).                 *)
(*                                                                          *)
(* Every React state cell is a variable, every event handler an action.     *)
(* Strings that the code trims, lower-cases or parses are sequences of      *)
(* one-character strings; other strings are TLA+ strings.                   *)
(***************************************************************************)
EXTENDS Integers, Sequences, FiniteSets, Bags, TLC

VARIABLES
    app,                    \* which page is mounted: "todo" or "wallet"
    tasks,                  \* todo: useState<Task[]>
    newTask,                \* todo: text input of the add form
    selectedTaskId,         \* todo: useState<number | null>
    priority,               \* todo: priority chosen in the add form
    filterPriority,         \* todo: priority filter
    reads,                  \* todo: FileReader reads in flight (bag of file contents)
    download,               \* todo: content of the last file written by saveTasksToFile
    transactions,           \* wallet: useState<Transaction[]>
    amount,                 \* wallet: amount input of the add form
    description,            \* wallet: description input of the add form
    selectedTransactionId,  \* wallet: useState<number | null>
    transactionType,        \* wallet: type chosen in the add form
    filterType,             \* wallet: type filter
    budget,                 \* wallet: useState<number>(0)
    budgetInput,            \* wallet: budget input
    activeTab,              \* wallet: tab shown, 'transactions' | 'analytics' | 'budget'
    category,               \* both pages: category chosen in the add form
    searchTerm,             \* both pages: search input
    filterCategory,         \* both pages: category filter
    alertMsg,               \* text of the alert() raised by the last event, "none" otherwise
    lastOp,                 \* history: name of the last handler that ran
    validAdds,              \* history: number of add calls whose input passed validation
    exportedFrom,           \* history: the collection serialized by the last saveTasksToFile
    changedDuring           \* history: the files during whose read the collection was changed

vars == <<app, tasks, newTask, selectedTaskId, priority, filterPriority, reads,
          download, transactions, amount, description, selectedTransactionId,
          transactionType, filterType, budget, budgetInput, activeTab, category,
          searchTerm, filterCategory, alertMsg, lastOp, validAdds, exportedFrom,
          changedDuring>>

todoVars == <<tasks, newTask, selectedTaskId, priority, filterPriority, reads, download>>

walletVars == <<transactions, amount, description, selectedTransactionId,
                transactionType, filterType, budget, budgetInput, activeTab>>

counters == <<validAdds, exportedFrom, changedDuring>>

history == <<lastOp, validAdds, exportedFrom, changedDuring>>

-----------------------------------------------------------------------------
(* Bounds of the model. *)

MaxTasks == 2           \* add is explored while the collection is shorter than this
MaxClock == 2           \* Date.now() returns a value in 1..MaxClock
MaxReads == 1           \* file reads in flight at once
MaxDrawn == 3           \* longest collection the view specifications start from

-----------------------------------------------------------------------------
(* Types of the source. *)

Category == {"Work", "Personal", "Shopping", "Others", "Home"}

Priority == {"Critical", "High", "Medium", "Low"}

TransactionType == {"income", "expense"}

\* The value null of `number | null`; Date.now() and the ids of the model are >= 1.
null == 0

\* The number Infinity, which JSON.parse returns for a literal out of the double range.
Infinity == 0 - 1

\* The JSON number literal 1e999 in a file.
Lit1e999 == 0 - 2

\* The values Date.now() can return.
DateNow == 1 .. MaxClock

\* new Date().toLocaleString(): the instant formatted to the second, milliseconds dropped.
toLocaleString(t) == t \div 1000

-----------------------------------------------------------------------------
(* String functions. *)

\* String.prototype.trim over the space character.
RECURSIVE trimStart(_)
trimStart(s) ==
    IF s # <<>> /\ Head(s) = " " THEN trimStart(Tail(s)) ELSE s

RECURSIVE trimEnd(_)
trimEnd(s) ==
    IF s # <<>> /\ s[Len(s)] = " " THEN trimEnd(SubSeq(s, 1, Len(s) - 1)) ELSE s

trim(s) == trimEnd(trimStart(s))

\* String.prototype.toLowerCase over the alphabet of the model.
lowerChar(c) ==
    CASE c = "A" -> "a"
      [] c = "B" -> "b"
      [] OTHER -> c

toLowerCase(s) == [i \in 1 .. Len(s) |-> lowerChar(s[i])]

\* String.prototype.includes: sub occurs in s as a contiguous substring.
includes(s, sub) ==
    \E i \in 0 .. (Len(s) - Len(sub)) : SubSeq(s, i + 1, i + Len(sub)) = sub

\* parseFloat over an optional sign followed by decimal digits; anything else is NaN.
digitValue(c) ==
    CASE c = "0" -> 0 [] c = "1" -> 1 [] c = "2" -> 2 [] c = "3" -> 3 [] c = "4" -> 4
      [] c = "5" -> 5 [] c = "6" -> 6 [] c = "7" -> 7 [] c = "8" -> 8 [] c = "9" -> 9
      [] OTHER -> 0 - 1

RECURSIVE digitPrefix(_, _, _)
digitPrefix(s, acc, seen) ==
    IF s # <<>> /\ digitValue(Head(s)) >= 0
    THEN digitPrefix(Tail(s), 10 * acc + digitValue(Head(s)), TRUE)
    ELSE [isNaN |-> ~seen, value |-> acc]

parseFloat(str) ==
    LET s == trimStart(str)
    IN  IF s # <<>> /\ Head(s) = "-"
        THEN LET r == digitPrefix(Tail(s), 0, FALSE)
             IN  [isNaN |-> r.isNaN, value |-> 0 - r.value]
        ELSE digitPrefix(s, 0, FALSE)

-----------------------------------------------------------------------------
(* Input values of the model. *)

\* Texts typed into the add form and the wallet description.
TypedTexts == { <<>>, <<" ">>, <<" ", "a", " ">> }

\* Search terms typed into the search box.
TypedSearches == { <<>>, <<"b">> }

\* Amounts the number input hands to setAmount and setBudgetInput.
TypedAmounts == { <<>>, <<"0">>, <<"-", "5">>, <<"5", "0">> }

-----------------------------------------------------------------------------
(* Todo page: derived views. *)

\* Variant: High ranked before Critical.
getPriorityOrder_highFirst(p) ==
    CASE p = "Critical" -> 1
      [] p = "High" -> 0
      [] p = "Medium" -> 2
      [] p = "Low" -> 3
      [] OTHER -> 4

getPriorityOrder(p) ==
    CASE p = "Critical" -> 0
      [] p = "High" -> 1
      [] p = "Medium" -> 2
      [] p = "Low" -> 3
      [] OTHER -> 4

\* Variant: the search compares letters with their case.
matchesTask_caseSensitive(task, search, fCategory, fPriority) ==
    /\ includes(task.text, search)
    /\ (fCategory = "All" \/ task.category = fCategory)
    /\ (fPriority = "All" \/ task.priority = fPriority)

matchesTask(task, search, fCategory, fPriority) ==
    /\ includes(toLowerCase(task.text), toLowerCase(search))
    /\ (fCategory = "All" \/ task.category = fCategory)
    /\ (fPriority = "All" \/ task.priority = fPriority)

getFilteredTasksOf(ts, search, fCategory, fPriority) ==
    LET Test(task) == matchesTask(task, search, fCategory, fPriority)
    IN  SelectSeq(ts, Test)

getFilteredTasks == getFilteredTasksOf(tasks, searchTerm, filterCategory, filterPriority)

\* Variant: an element is inserted before the elements of equal order.
RECURSIVE insertByPriority_beforeEquals(_, _)
insertByPriority_beforeEquals(sorted, task) ==
    IF sorted = <<>> THEN <<task>>
    ELSE IF getPriorityOrder(Head(sorted).priority) - getPriorityOrder(task.priority) >= 0
         THEN <<task>> \o sorted
         ELSE <<Head(sorted)>> \o insertByPriority_beforeEquals(Tail(sorted), task)

\* Array.prototype.sort with the comparator of sortTasksByPriority: a stable
\* insertion of each element after the elements whose order is not greater.
RECURSIVE insertByPriority(_, _)
insertByPriority(sorted, task) ==
    IF sorted = <<>> THEN <<task>>
    ELSE IF getPriorityOrder(Head(sorted).priority) - getPriorityOrder(task.priority) > 0
         THEN <<task>> \o sorted
         ELSE <<Head(sorted)>> \o insertByPriority(Tail(sorted), task)

RECURSIVE sortedByPriority(_)
sortedByPriority(ts) ==
    IF ts = <<>> THEN <<>>
    ELSE insertByPriority(sortedByPriority(SubSeq(ts, 1, Len(ts) - 1)), ts[Len(ts)])

\* tasks.filter((task) => task[key] === value).length
countTasks(key, value) == Len(SelectSeq(tasks, LAMBDA task : task[key] = value))

getStats ==
    LET totalTasks == Len(tasks)
        completedTasks == countTasks("completed", TRUE)
        pendingTasks == totalTasks - completedTasks
        categoryStats ==
            [Work |-> countTasks("category", "Work"),
             Personal |-> countTasks("category", "Personal"),
             Shopping |-> countTasks("category", "Shopping"),
             Others |-> countTasks("category", "Others"),
             Home |-> countTasks("category", "Home")]
        priorityStats ==
            [Critical |-> countTasks("priority", "Critical"),
             High |-> countTasks("priority", "High"),
             Medium |-> countTasks("priority", "Medium"),
             Low |-> countTasks("priority", "Low")]
    IN  [totalTasks |-> totalTasks, completedTasks |-> completedTasks,
         pendingTasks |-> pendingTasks, categoryStats |-> categoryStats,
         priorityStats |-> priorityStats]

-----------------------------------------------------------------------------
(* Todo page: handlers of the add form and of the buttons. *)

Todo == app = "todo"

Wallet == app = "wallet"

\* What every todo handler leaves alone besides the cells it names.
TodoFrame ==
    /\ UNCHANGED app
    /\ UNCHANGED walletVars

\* What every wallet handler leaves alone besides the cells it names.
WalletFrame ==
    /\ UNCHANGED app
    /\ UNCHANGED todoVars
    /\ UNCHANGED activeTab

setNewTask(v) ==
    /\ Todo
    /\ v # newTask
    /\ newTask' = v
    /\ alertMsg' = "none"
    /\ TodoFrame
    /\ UNCHANGED <<tasks, selectedTaskId, priority, filterPriority, reads, download,
                   category, searchTerm, filterCategory>>

\* The same handler on both pages.
setCategory(c) ==
    /\ Wallet => activeTab = "transactions"
    /\ c # category
    /\ category' = c
    /\ alertMsg' = "none"
    /\ UNCHANGED <<app, todoVars, walletVars, searchTerm, filterCategory>>

setPriority(p) ==
    /\ Todo
    /\ p # priority
    /\ priority' = p
    /\ alertMsg' = "none"
    /\ TodoFrame
    /\ UNCHANGED <<tasks, newTask, selectedTaskId, filterPriority, reads, download,
                   category, searchTerm, filterCategory>>

\* The Task that add_task builds at instant t.
newTaskRecord(t) ==
    [id |-> t, text |-> trim(newTask), completed |-> FALSE,
     createdAt |-> toLocaleString(t), category |-> category, priority |-> priority]

\* add_task with the test `newTask !== ''` in place of `newTask.trim() !== ''`.
add_task_withoutTrim ==
    /\ Todo
    /\ IF newTask # <<>>
       THEN /\ Len(tasks) < MaxTasks
            /\ \E t \in DateNow : tasks' = Append(tasks, newTaskRecord(t))
            /\ newTask' = <<>>
       ELSE UNCHANGED <<tasks, newTask>>
    /\ alertMsg' = "none"
    /\ TodoFrame
    /\ UNCHANGED <<selectedTaskId, priority, filterPriority, reads, download,
                   category, searchTerm, filterCategory>>

\* add_task with setNewTask('') moved out of the if.
add_task_clearingInput ==
    /\ Todo
    /\ IF trim(newTask) # <<>>
       THEN /\ Len(tasks) < MaxTasks
            /\ \E t \in DateNow : tasks' = Append(tasks, newTaskRecord(t))
       ELSE UNCHANGED tasks
    /\ newTask' = <<>>
    /\ alertMsg' = "none"
    /\ TodoFrame
    /\ UNCHANGED <<selectedTaskId, priority, filterPriority, reads, download,
                   category, searchTerm, filterCategory>>

\* add_task with setTasks([task, ...tasks]).
add_task_prepending ==
    /\ Todo
    /\ IF trim(newTask) # <<>>
       THEN /\ Len(tasks) < MaxTasks
            /\ \E t \in DateNow : tasks' = <<newTaskRecord(t)>> \o tasks
            /\ newTask' = <<>>
       ELSE UNCHANGED <<tasks, newTask>>
    /\ alertMsg' = "none"
    /\ TodoFrame
    /\ UNCHANGED <<selectedTaskId, priority, filterPriority, reads, download,
                   category, searchTerm, filterCategory>>

add_task ==
    /\ Todo
    /\ IF trim(newTask) # <<>>
       THEN /\ Len(tasks) < MaxTasks
            /\ \E t \in DateNow : tasks' = Append(tasks, newTaskRecord(t))
            /\ newTask' = <<>>
       ELSE UNCHANGED <<tasks, newTask>>
    /\ alertMsg' = "none"
    /\ TodoFrame
    /\ UNCHANGED <<selectedTaskId, priority, filterPriority, reads, download,
                   category, searchTerm, filterCategory>>

\* onClick of a row of the task list, which renders getFilteredTasks().
selectTask ==
    /\ Todo
    /\ \E i \in 1 .. Len(getFilteredTasks) : selectedTaskId' = getFilteredTasks[i].id
    /\ alertMsg' = "none"
    /\ TodoFrame
    /\ UNCHANGED <<tasks, newTask, priority, filterPriority, reads, download,
                   category, searchTerm, filterCategory>>

\* delete_task without setSelectedTaskId(null).
delete_task_keepingSelection ==
    /\ Todo
    /\ IF selectedTaskId # null
       THEN LET Keep(task) == task.id # selectedTaskId
            IN  tasks' = SelectSeq(tasks, Keep)
       ELSE UNCHANGED tasks
    /\ alertMsg' = "none"
    /\ TodoFrame
    /\ UNCHANGED <<newTask, selectedTaskId, priority, filterPriority, reads, download,
                   category, searchTerm, filterCategory>>

delete_task ==
    /\ Todo
    /\ IF selectedTaskId # null
       THEN /\ LET Keep(task) == task.id # selectedTaskId
               IN  tasks' = SelectSeq(tasks, Keep)
            /\ selectedTaskId' = null
       ELSE UNCHANGED <<tasks, selectedTaskId>>
    /\ alertMsg' = "none"
    /\ TodoFrame
    /\ UNCHANGED <<newTask, priority, filterPriority, reads, download,
                   category, searchTerm, filterCategory>>

clear_task ==
    /\ Todo
    /\ tasks' = <<>>
    /\ selectedTaskId' = null
    /\ alertMsg' = "none"
    /\ TodoFrame
    /\ UNCHANGED <<newTask, priority, filterPriority, reads, download,
                   category, searchTerm, filterCategory>>

\* mark_done flipping every task instead of the selected one.
mark_done_togglingAll ==
    /\ Todo
    /\ IF selectedTaskId # null
       THEN tasks' = [i \in 1 .. Len(tasks) |->
                        [tasks[i] EXCEPT !.completed = ~tasks[i].completed]]
       ELSE UNCHANGED tasks
    /\ alertMsg' = "none"
    /\ TodoFrame
    /\ UNCHANGED <<newTask, selectedTaskId, priority, filterPriority, reads, download,
                   category, searchTerm, filterCategory>>

mark_done ==
    /\ Todo
    /\ IF selectedTaskId # null
       THEN tasks' = [i \in 1 .. Len(tasks) |->
                        IF tasks[i].id = selectedTaskId
                        THEN [tasks[i] EXCEPT !.completed = ~tasks[i].completed]
                        ELSE tasks[i]]
       ELSE UNCHANGED tasks
    /\ alertMsg' = "none"
    /\ TodoFrame
    /\ UNCHANGED <<newTask, selectedTaskId, priority, filterPriority, reads, download,
                   category, searchTerm, filterCategory>>

sortTasksByPriority ==
    /\ Todo
    /\ tasks' = sortedByPriority(tasks)
    /\ alertMsg' = "none"
    /\ TodoFrame
    /\ UNCHANGED <<newTask, selectedTaskId, priority, filterPriority, reads, download,
                   category, searchTerm, filterCategory>>

\* The same handler on both pages.
setSearchTerm(v) ==
    /\ Wallet => activeTab = "transactions"
    /\ v # searchTerm
    /\ searchTerm' = v
    /\ alertMsg' = "none"
    /\ UNCHANGED <<app, todoVars, walletVars, category, filterCategory>>

\* The same handler on both pages.
setFilterCategory(c) ==
    /\ Wallet => activeTab = "transactions"
    /\ c # filterCategory
    /\ filterCategory' = c
    /\ alertMsg' = "none"
    /\ UNCHANGED <<app, todoVars, walletVars, category, searchTerm>>

setFilterPriority(p) ==
    /\ Todo
    /\ p # filterPriority
    /\ filterPriority' = p
    /\ alertMsg' = "none"
    /\ TodoFrame
    /\ UNCHANGED <<tasks, newTask, selectedTaskId, priority, reads, download,
                   category, searchTerm, filterCategory>>

\* onClick of the Clear Filters button.
\* Variant: Clear Filters also drops the selection.
clearFilters_clearingSelection ==
    /\ Todo
    /\ searchTerm' = <<>>
    /\ filterCategory' = "All"
    /\ filterPriority' = "All"
    /\ selectedTaskId' = null
    /\ alertMsg' = "none"
    /\ TodoFrame
    /\ UNCHANGED <<tasks, newTask, priority, reads, download, category>>

clearFilters ==
    /\ Todo
    /\ searchTerm' = <<>>
    /\ filterCategory' = "All"
    /\ filterPriority' = "All"
    /\ alertMsg' = "none"
    /\ TodoFrame
    /\ UNCHANGED <<tasks, newTask, selectedTaskId, priority, reads, download, category>>

-----------------------------------------------------------------------------
(* Todo page: export and import.                                           *)
(*                                                                          *)
(* The content of a file is its JSON text, kept as the syntax tree of the   *)
(* text: whether it is well-formed JSON, whether the top-level value is     *)
(* null, a number or an object, whether it has a member "tasks" and whether *)
(* that member is an array, and the elements of the array.  An element is   *)
(* the literal null or an object literal, a function from its keys to the   *)
(* literals of their values.  Number literals occur under the key "id".     *)
(***************************************************************************)

NoFile == [wellFormed |-> FALSE, top |-> "none", tasksKind |-> "absent", elems |-> <<>>]

ObjectLit(fields) == [isObject |-> TRUE, fields |-> fields]

NullLit == [isObject |-> FALSE, fields |-> [k \in {} |-> null]]

TasksFile(elems) ==
    [wellFormed |-> TRUE, top |-> "object", tasksKind |-> "array", elems |-> elems]

\* JSON.stringify of a number: the non-finite numbers are written as null.
JSONstringifyNumber(n) == IF n = Infinity THEN null ELSE n

\* JSON.parse of a number literal: a literal beyond the double range reads as Infinity.
JSONparseNumber(lit) == IF lit = Lit1e999 THEN Infinity ELSE lit

JSONstringifyObject(obj) ==
    [k \in DOMAIN obj |-> IF k = "id" THEN JSONstringifyNumber(obj[k]) ELSE obj[k]]

JSONparseObject(fields) ==
    [k \in DOMAIN fields |-> IF k = "id" THEN JSONparseNumber(fields[k]) ELSE fields[k]]

\* JSON.stringify({tasks, exportDate, version}, null, 2)
JSONstringify(ts) ==
    TasksFile([i \in 1 .. Len(ts) |-> ObjectLit(JSONstringifyObject(ts[i]))])

\* The keys handleFileImport requires of every element.
RequiredKeys == {"id", "text", "completed", "category", "priority"}

\* The validation without the test of 'priority'.
hasRequiredKeys_withoutPriority(fields) ==
    \A k \in RequiredKeys \ {"priority"} : k \in DOMAIN fields

hasRequiredKeys(fields) == \A k \in RequiredKeys : k \in DOMAIN fields

\* The index of the first element at which data.tasks.every(...) stops: the first
\* element that is null (hasOwnProperty throws) or lacks a key (the callback
\* returns false); 0 when every element passes.
firstFailing(elems) ==
    LET failing == {i \in 1 .. Len(elems) :
                        ~elems[i].isObject \/ ~hasRequiredKeys(elems[i].fields)}
    IN  IF failing = {} THEN 0 ELSE CHOOSE i \in failing : \A j \in failing : i <= j

\* The branch of reader.onload that the content takes.
importBranch(content) ==
    IF ~content.wellFormed THEN "catch"                     \* JSON.parse throws
    ELSE IF content.top = "null" THEN "catch"               \* data.tasks throws
    ELSE IF content.tasksKind # "array" THEN "noTasksArray"
    ELSE IF firstFailing(content.elems) = 0 THEN "valid"
    ELSE IF ~content.elems[firstFailing(content.elems)].isObject THEN "catch"
    ELSE "invalidFormat"

\* data.tasks of a file that takes the valid branch.
parsedTasks(content) ==
    [i \in 1 .. Len(content.elems) |-> JSONparseObject(content.elems[i].fields)]

importAlert(branch) ==
    CASE branch = "valid" -> "Tasks imported successfully!"
      [] branch = "invalidFormat" ->
            "Invalid file format. Please check that the JSON contains valid task data."
      [] branch = "noTasksArray" ->
            "Invalid file format. Expected a JSON file with tasks array."
      [] OTHER -> "Error reading file. Please make sure it's a valid JSON file."

\* The button is disabled while the collection is empty.
saveTasksToFile ==
    /\ Todo
    /\ Len(tasks) # 0
    /\ download' = JSONstringify(tasks)
    /\ alertMsg' = "none"
    /\ TodoFrame
    /\ UNCHANGED <<tasks, newTask, selectedTaskId, priority, filterPriority, reads,
                   category, searchTerm, filterCategory>>

\* The synchronous part of handleFileImport: a FileReader starts reading the file.
handleFileImport(content) ==
    /\ Todo
    /\ content # NoFile
    /\ reads' = reads (+) SetToBag({content})
    /\ alertMsg' = "none"
    /\ TodoFrame
    /\ UNCHANGED <<tasks, newTask, selectedTaskId, priority, filterPriority, download,
                   category, searchTerm, filterCategory>>

\* onload with setTasks([...tasks, ...data.tasks]).
onload_merging(content) ==
    /\ Todo
    /\ BagIn(content, reads)
    /\ reads' = reads (-) SetToBag({content})
    /\ IF importBranch(content) = "valid"
       THEN /\ tasks' = tasks \o parsedTasks(content)
            /\ selectedTaskId' = null
       ELSE UNCHANGED <<tasks, selectedTaskId>>
    /\ alertMsg' = importAlert(importBranch(content))
    /\ TodoFrame
    /\ UNCHANGED <<newTask, priority, filterPriority, download,
                   category, searchTerm, filterCategory>>

\* reader.onload that stores the file only when no other read is in flight.
onload_unlessOtherInFlight(content) ==
    /\ Todo
    /\ BagIn(content, reads)
    /\ reads' = reads (-) SetToBag({content})
    /\ IF importBranch(content) = "valid" /\ BagCardinality(reads) = 1
       THEN /\ tasks' = parsedTasks(content)
            /\ selectedTaskId' = null
       ELSE UNCHANGED <<tasks, selectedTaskId>>
    /\ alertMsg' = importAlert(importBranch(content))
    /\ TodoFrame
    /\ UNCHANGED <<newTask, priority, filterPriority, download,
                   category, searchTerm, filterCategory>>

\* reader.onload: the read of content has completed.
onload(content) ==
    /\ Todo
    /\ BagIn(content, reads)
    /\ reads' = reads (-) SetToBag({content})
    /\ IF importBranch(content) = "valid"
       THEN /\ tasks' = parsedTasks(content)
            /\ selectedTaskId' = null
       ELSE UNCHANGED <<tasks, selectedTaskId>>
    /\ alertMsg' = importAlert(importBranch(content))
    /\ TodoFrame
    /\ UNCHANGED <<newTask, priority, filterPriority, download,
                   category, searchTerm, filterCategory>>

\* The read of content fails: the FileReader fires its error event, for which
\* handleFileImport registers no handler.
onerror(content) ==
    /\ Todo
    /\ BagIn(content, reads)
    /\ reads' = reads (-) SetToBag({content})
    /\ alertMsg' = "none"
    /\ TodoFrame
    /\ UNCHANGED <<tasks, newTask, selectedTaskId, priority, filterPriority, download,
                   category, searchTerm, filterCategory>>

-----------------------------------------------------------------------------
(* Wallet page. *)

matchesTransaction(transaction, search, fCategory, fType) ==
    /\ includes(toLowerCase(transaction.description), toLowerCase(search))
    /\ (fCategory = "All" \/ transaction.category = fCategory)
    /\ (fType = "All" \/ transaction.type = fType)

\* Variant: the matching transactions are listed newest first.
getFilteredTransactionsOf_newestFirst(trs, search, fCategory, fType) ==
    LET Test(transaction) == matchesTransaction(transaction, search, fCategory, fType)
        kept == SelectSeq(trs, Test)
    IN  [k \in 1 .. Len(kept) |-> kept[Len(kept) + 1 - k]]

getFilteredTransactionsOf(trs, search, fCategory, fType) ==
    LET Test(transaction) == matchesTransaction(transaction, search, fCategory, fType)
    IN  SelectSeq(trs, Test)

getFilteredTransactions ==
    getFilteredTransactionsOf(transactions, searchTerm, filterCategory, filterType)

\* transactions.filter((t) => t.type === ty)
ofType(ty) == SelectSeq(transactions, LAMBDA t : t.type = ty)

\* trs.reduce((sum, t) => sum + t.amount, 0)
RECURSIVE sumAmounts(_)
sumAmounts(trs) ==
    IF trs = <<>> THEN 0
    ELSE sumAmounts(SubSeq(trs, 1, Len(trs) - 1)) + trs[Len(trs)].amount

\* Math.max(...trs.map((t) => t.amount)) of a non-empty list
RECURSIVE MathMax(_)
MathMax(trs) ==
    IF Len(trs) = 1 THEN trs[1].amount
    ELSE LET rest == MathMax(Tail(trs))
         IN  IF trs[1].amount > rest THEN trs[1].amount ELSE rest

\* Variant: the largest amount is taken over the transactions of both types.
getAnalyticsData_largestOfAll ==
    LET totalIncome == sumAmounts(ofType("income"))
        totalExpenses == sumAmounts(ofType("expense"))
    IN  [totalIncome |-> totalIncome,
         totalExpenses |-> totalExpenses,
         netSavings |-> totalIncome - totalExpenses,
         totalTransactions |-> Len(transactions),
         avgMonthlyExpense |-> totalExpenses,
         largestExpense |-> IF Len(transactions) > 0 THEN MathMax(transactions) ELSE 0]

getAnalyticsData ==
    LET totalIncome == sumAmounts(ofType("income"))
        totalExpenses == sumAmounts(ofType("expense"))
        netSavings == totalIncome - totalExpenses
        totalTransactions == Len(transactions)
        avgMonthlyExpense == totalExpenses
        expenseTransactions == ofType("expense")
        largestExpense ==
            IF Len(expenseTransactions) > 0 THEN MathMax(expenseTransactions) ELSE 0
    IN  [totalIncome |-> totalIncome,
         totalExpenses |-> totalExpenses,
         netSavings |-> netSavings,
         totalTransactions |-> totalTransactions,
         avgMonthlyExpense |-> avgMonthlyExpense,
         largestExpense |-> largestExpense]

getCategoryColor(c) ==
    CASE c = "Work" -> "#3B82F6"
      [] c = "Personal" -> "#10B981"
      [] c = "Shopping" -> "#F59E0B"
      [] c = "Others" -> "#8B5CF6"
      [] c = "Home" -> "#EF4444"

\* The reduce of getCategoryDistribution: the object acc as its entries in insertion
\* order, acc[category] = (acc[category] || 0) + transaction.amount.
RECURSIVE expensesByCategory(_)
expensesByCategory(trs) ==
    IF trs = <<>> THEN <<>>
    ELSE LET acc == expensesByCategory(SubSeq(trs, 1, Len(trs) - 1))
             transaction == trs[Len(trs)]
             at == {k \in 1 .. Len(acc) : acc[k].name = transaction.category}
         IN  IF at = {}
             THEN Append(acc, [name |-> transaction.category,
                               value |-> 0 + transaction.amount])
             ELSE [k \in 1 .. Len(acc) |->
                      IF k \in at
                      THEN [acc[k] EXCEPT !.value = @ + transaction.amount]
                      ELSE acc[k]]

\* Object.entries(...).map(...) of an accumulated object
distributionEntries(acc) ==
    [k \in 1 .. Len(acc) |->
        [name |-> acc[k].name, value |-> acc[k].value,
         color |-> getCategoryColor(acc[k].name)]]

\* Variant: the transactions of both types are accumulated.
getCategoryDistribution_withIncome ==
    distributionEntries(expensesByCategory(transactions))

getCategoryDistribution ==
    distributionEntries(expensesByCategory(ofType("expense")))

\* A percentage is the exact quotient num / den, den > 0.
MathMin100(p) == IF p.num > 100 * p.den THEN [num |-> 100, den |-> 1] ELSE p

MathMax0(n) == IF n > 0 THEN n ELSE 0

\* Variant: remaining and percentageSpent are returned as computed.
getBudgetData_unclamped ==
    LET totalSpent == sumAmounts(ofType("expense"))
    IN  [budget |-> budget,
         spent |-> totalSpent,
         remaining |-> budget - totalSpent,
         percentageSpent |-> IF budget > 0 THEN [num |-> totalSpent * 100, den |-> budget]
                                            ELSE [num |-> 0, den |-> 1]]

getBudgetData ==
    LET totalSpent == sumAmounts(ofType("expense"))
        remaining == budget - totalSpent
        percentageSpent ==
            IF budget > 0 THEN [num |-> totalSpent * 100, den |-> budget]
                          ELSE [num |-> 0, den |-> 1]
    IN  [budget |-> budget,
         spent |-> totalSpent,
         remaining |-> MathMax0(remaining),
         percentageSpent |-> MathMin100(percentageSpent)]

\* Number.prototype.toFixed(1) of a percentage that is not negative, in tenths.
toFixed1(p) == (20 * p.num + p.den) \div (2 * p.den)

\* Variant: 80 percent falls in the band above.
budgetNotice_eightyAbove ==
    LET p == getBudgetData.percentageSpent
    IN  [shown |-> activeTab = "budget" /\ budget > 0,
         colour |-> CASE p.num <= 50 * p.den -> "green"
                      [] p.num < 80 * p.den -> "yellow"
                      [] p.num < 100 * p.den -> "orange"
                      [] OTHER -> "red",
         exceeded |-> p.num >= 100 * p.den,
         figure |-> IF p.num >= 100 * p.den
                    THEN toFixed1([num |-> p.num - 100 * p.den, den |-> p.den])
                    ELSE toFixed1(p)]

\* The budget notice: whether it is rendered, its colour, which of the two messages
\* it shows and the figure in the message.
budgetNotice ==
    LET p == getBudgetData.percentageSpent
    IN  [shown |-> activeTab = "budget" /\ budget > 0,
         colour |-> CASE p.num <= 50 * p.den -> "green"
                      [] p.num <= 80 * p.den -> "yellow"
                      [] p.num < 100 * p.den -> "orange"
                      [] OTHER -> "red",
         exceeded |-> p.num >= 100 * p.den,
         figure |-> IF p.num >= 100 * p.den
                    THEN toFixed1([num |-> p.num - 100 * p.den, den |-> p.den])
                    ELSE toFixed1(p)]

setAmount(v) ==
    /\ Wallet
    /\ activeTab = "transactions"
    /\ v # amount
    /\ amount' = v
    /\ alertMsg' = "none"
    /\ WalletFrame
    /\ UNCHANGED <<transactions, description, selectedTransactionId, transactionType,
                   filterType, budget, budgetInput, category, searchTerm, filterCategory>>

setDescription(v) ==
    /\ Wallet
    /\ activeTab = "transactions"
    /\ v # description
    /\ description' = v
    /\ alertMsg' = "none"
    /\ WalletFrame
    /\ UNCHANGED <<transactions, amount, selectedTransactionId, transactionType,
                   filterType, budget, budgetInput, category, searchTerm, filterCategory>>

setTransactionType(ty) ==
    /\ Wallet
    /\ activeTab = "transactions"
    /\ ty # transactionType
    /\ transactionType' = ty
    /\ alertMsg' = "none"
    /\ WalletFrame
    /\ UNCHANGED <<transactions, amount, description, selectedTransactionId,
                   filterType, budget, budgetInput, category, searchTerm, filterCategory>>

\* The condition under which addTransaction creates a record.
amountAndDescriptionPass ==
    /\ trim(amount) # <<>>
    /\ ~parseFloat(amount).isNaN
    /\ parseFloat(amount).value > 0
    /\ trim(description) # <<>>

\* The Transaction that addTransaction builds at instant t.
newTransactionRecord(t) ==
    [id |-> t, amount |-> parseFloat(amount).value, type |-> transactionType,
     description |-> trim(description), category |-> category,
     createdAt |-> toLocaleString(t)]

addTransaction ==
    /\ Wallet
    /\ activeTab = "transactions"
    /\ IF amountAndDescriptionPass
       THEN /\ Len(transactions) < MaxTasks
            /\ \E t \in DateNow : transactions' = Append(transactions, newTransactionRecord(t))
            /\ amount' = <<>>
            /\ description' = <<>>
       ELSE UNCHANGED <<transactions, amount, description>>
    /\ alertMsg' = "none"
    /\ WalletFrame
    /\ UNCHANGED <<selectedTransactionId, transactionType, filterType, budget,
                   budgetInput, category, searchTerm, filterCategory>>

\* onClick of a row of the table, which renders getFilteredTransactions().
selectTransaction ==
    /\ Wallet
    /\ activeTab = "transactions"
    /\ \E i \in 1 .. Len(getFilteredTransactions) :
            selectedTransactionId' = getFilteredTransactions[i].id
    /\ alertMsg' = "none"
    /\ WalletFrame
    /\ UNCHANGED <<transactions, amount, description, transactionType, filterType,
                   budget, budgetInput, category, searchTerm, filterCategory>>

deleteTransaction ==
    /\ Wallet
    /\ activeTab = "transactions"
    /\ IF selectedTransactionId # null
       THEN /\ LET Keep(transaction) == transaction.id # selectedTransactionId
               IN  transactions' = SelectSeq(transactions, Keep)
            /\ selectedTransactionId' = null
       ELSE UNCHANGED <<transactions, selectedTransactionId>>
    /\ alertMsg' = "none"
    /\ WalletFrame
    /\ UNCHANGED <<amount, description, transactionType, filterType, budget,
                   budgetInput, category, searchTerm, filterCategory>>

\* clearAllTransactions with the budget reset as well.
clearAllTransactions_resettingBudget ==
    /\ Wallet
    /\ activeTab = "transactions"
    /\ transactions' = <<>>
    /\ selectedTransactionId' = null
    /\ budget' = 0
    /\ alertMsg' = "none"
    /\ WalletFrame
    /\ UNCHANGED <<amount, description, transactionType, filterType,
                   budgetInput, category, searchTerm, filterCategory>>

clearAllTransactions ==
    /\ Wallet
    /\ activeTab = "transactions"
    /\ transactions' = <<>>
    /\ selectedTransactionId' = null
    /\ alertMsg' = "none"
    /\ WalletFrame
    /\ UNCHANGED <<amount, description, transactionType, filterType, budget,
                   budgetInput, category, searchTerm, filterCategory>>

setFilterType(ty) ==
    /\ Wallet
    /\ activeTab = "transactions"
    /\ ty # filterType
    /\ filterType' = ty
    /\ alertMsg' = "none"
    /\ WalletFrame
    /\ UNCHANGED <<transactions, amount, description, selectedTransactionId,
                   transactionType, budget, budgetInput, category, searchTerm,
                   filterCategory>>

\* onClick of the Clear Filters button of the wallet.
clearTransactionFilters ==
    /\ Wallet
    /\ activeTab = "transactions"
    /\ searchTerm' = <<>>
    /\ filterCategory' = "All"
    /\ filterType' = "All"
    /\ alertMsg' = "none"
    /\ WalletFrame
    /\ UNCHANGED <<transactions, amount, description, selectedTransactionId,
                   transactionType, budget, budgetInput, category>>

\* The tab buttons.
Tabs == {"transactions", "analytics", "budget"}

setActiveTab(tab) ==
    /\ Wallet
    /\ tab # activeTab
    /\ activeTab' = tab
    /\ alertMsg' = "none"
    /\ UNCHANGED <<app, todoVars>>
    /\ UNCHANGED <<transactions, amount, description, selectedTransactionId,
                   transactionType, filterType, budget, budgetInput, category, searchTerm,
                   filterCategory>>

setBudgetInput(v) ==
    /\ Wallet
    /\ activeTab = "budget"
    /\ v # budgetInput
    /\ budgetInput' = v
    /\ alertMsg' = "none"
    /\ WalletFrame
    /\ UNCHANGED <<transactions, amount, description, selectedTransactionId,
                   transactionType, filterType, budget, category, searchTerm,
                   filterCategory>>

\* setBudgetAmount without the test value > 0.
setBudgetAmount_acceptingAny ==
    /\ Wallet
    /\ activeTab = "budget"
    /\ IF ~parseFloat(budgetInput).isNaN
       THEN /\ budget' = parseFloat(budgetInput).value
            /\ budgetInput' = <<>>
       ELSE UNCHANGED <<budget, budgetInput>>
    /\ alertMsg' = "none"
    /\ WalletFrame
    /\ UNCHANGED <<transactions, amount, description, selectedTransactionId,
                   transactionType, filterType, category, searchTerm, filterCategory>>

setBudgetAmount ==
    /\ Wallet
    /\ activeTab = "budget"
    /\ IF ~parseFloat(budgetInput).isNaN /\ parseFloat(budgetInput).value > 0
       THEN /\ budget' = parseFloat(budgetInput).value
            /\ budgetInput' = <<>>
       ELSE UNCHANGED <<budget, budgetInput>>
    /\ alertMsg' = "none"
    /\ WalletFrame
    /\ UNCHANGED <<transactions, amount, description, selectedTransactionId,
                   transactionType, filterType, category, searchTerm, filterCategory>>

-----------------------------------------------------------------------------
(* Files offered to the import. *)

taskLit(i, txt, pri) ==
    [id |-> i, text |-> txt, completed |-> FALSE, createdAt |-> 0,
     category |-> "Work", priority |-> pri]

without(fields, key) == [k \in DOMAIN fields \ {key} |-> fields[k]]

\* Text that is not JSON.
MalformedFile == [wellFormed |-> FALSE, top |-> "object", tasksKind |-> "absent", elems |-> <<>>]

\* null
NullFile == [wellFormed |-> TRUE, top |-> "null", tasksKind |-> "absent", elems |-> <<>>]

\* 5
NumberFile == [wellFormed |-> TRUE, top |-> "number", tasksKind |-> "absent", elems |-> <<>>]

\* {"version": "1.0"}
NoTasksFile == [wellFormed |-> TRUE, top |-> "object", tasksKind |-> "absent", elems |-> <<>>]

\* {"tasks": "none"}
TasksNotArrayFile ==
    [wellFormed |-> TRUE, top |-> "object", tasksKind |-> "notArray", elems |-> <<>>]

\* {"tasks": [task 1, task 2 without key]}
MissingKeyFile(key) ==
    TasksFile(<<ObjectLit(taskLit(1, <<"a">>, "High")),
                ObjectLit(without(taskLit(2, <<"B">>, "Low"), key))>>)

\* {"tasks": [task 1, null]}
NullElementFile == TasksFile(<<ObjectLit(taskLit(1, <<"a">>, "High")), NullLit>>)

\* {"tasks": [task without text, null]}
MissingThenNullFile ==
    TasksFile(<<ObjectLit(without(taskLit(1, <<"a">>, "High"), "text")), NullLit>>)

\* {"tasks": []}
EmptyTasksFile == TasksFile(<<>>)

\* {"tasks": [task 2, task 1]}
ValidFile ==
    TasksFile(<<ObjectLit(taskLit(2, <<"B">>, "Low")), ObjectLit(taskLit(1, <<"a">>, "High"))>>)

\* {"tasks": [task 1, another task with id 1]}
DuplicateIdFile ==
    TasksFile(<<ObjectLit(taskLit(1, <<"a">>, "High")), ObjectLit(taskLit(1, <<"B">>, "Low"))>>)

\* {"tasks": [task 1 without createdAt]}
NoCreatedAtFile == TasksFile(<<ObjectLit(without(taskLit(1, <<"a">>, "High"), "createdAt"))>>)

\* {"tasks": [task with "id": 1e999]}
HugeIdFile == TasksFile(<<ObjectLit(taskLit(Lit1e999, <<"a">>, "High"))>>)

\* {"tasks": [task 1 with "category": "Garden"]}
UnknownCategoryFile ==
    TasksFile(<<ObjectLit([taskLit(1, <<"a">>, "High") EXCEPT !.category = "Garden"])>>)

RejectedFiles ==
    {MalformedFile, NullFile, NumberFile, NoTasksFile, TasksNotArrayFile, NullElementFile,
     MissingThenNullFile} \cup {MissingKeyFile(k) : k \in RequiredKeys}

AcceptedFiles == {EmptyTasksFile, ValidFile, DuplicateIdFile, NoCreatedAtFile, HugeIdFile}

-----------------------------------------------------------------------------
(* Specification of the two pages. *)

\* The categories and priorities chosen in the add form of the todo page in SpecAdd.
ChosenCategories == {"Work", "Shopping"}

ChosenPriorities == {"Medium", "Critical"}

\* The texts and amounts typed in Spec.
PlainTexts == { <<>>, <<" ", "a", " ">> }

PlainAmounts == { <<>>, <<"5", "0">> }

\* The files the user picks in Spec.
PickedFiles == {MissingKeyFile("priority"), DuplicateIdFile}

Init ==
    /\ app \in {"todo", "wallet"}
    /\ tasks = <<>>
    /\ newTask = <<>>
    /\ selectedTaskId = null
    /\ priority = "Medium"
    /\ filterPriority = "All"
    /\ reads = EmptyBag
    /\ download = NoFile
    /\ transactions = <<>>
    /\ amount = <<>>
    /\ description = <<>>
    /\ selectedTransactionId = null
    /\ transactionType = "expense"
    /\ filterType = "All"
    /\ budget = 0
    /\ budgetInput = <<>>
    /\ activeTab = "transactions"
    /\ category = IF app = "todo" THEN "Work" ELSE "Personal"
    /\ searchTerm = <<>>
    /\ filterCategory = "All"
    /\ alertMsg = "none"
    /\ lastOp = "init"
    /\ validAdds = 0
    /\ exportedFrom = <<>>
    /\ changedDuring = {}

TypeNewTask == \E v \in PlainTexts : setNewTask(v) /\ UNCHANGED history
AddTask == add_task /\ UNCHANGED history
SelectTask == selectTask /\ UNCHANGED history
DeleteTask == delete_task /\ UNCHANGED history
ClearTasks == clear_task /\ UNCHANGED history
MarkDone == mark_done /\ UNCHANGED history
SortTasks == sortTasksByPriority /\ UNCHANGED history
TypeSearch == \E v \in TypedSearches : setSearchTerm(v) /\ UNCHANGED history
ChooseFilterCategory ==
    \E c \in {"All", "Shopping"} :
        /\ setFilterCategory(c)
        /\ UNCHANGED history
ChooseFilterPriority == \E p \in {"All", "High"} : setFilterPriority(p) /\ UNCHANGED history
ClearFilters == clearFilters /\ UNCHANGED history
PickFile ==
    \E f \in PickedFiles :
        /\ BagCardinality(reads) < MaxReads
        /\ handleFileImport(f)
        /\ UNCHANGED history
ReadDone == \E f \in BagToSet(reads) : onload(f) /\ UNCHANGED history
ReadFailed == \E f \in BagToSet(reads) : onerror(f) /\ UNCHANGED history

TypeAmount == \E v \in PlainAmounts : setAmount(v) /\ UNCHANGED history
TypeDescription == \E v \in PlainTexts : setDescription(v) /\ UNCHANGED history
ChooseTransactionType ==
    \E ty \in TransactionType :
        /\ setTransactionType(ty)
        /\ UNCHANGED history
AddTransaction == addTransaction /\ UNCHANGED history
SelectTransaction == selectTransaction /\ UNCHANGED history
DeleteTransaction == deleteTransaction /\ UNCHANGED history
ClearTransactions == clearAllTransactions /\ UNCHANGED history
ChooseFilterType == \E ty \in {"All", "income"} : setFilterType(ty) /\ UNCHANGED history
ChooseTab == \E tab \in Tabs : setActiveTab(tab) /\ UNCHANGED history
ClearTransactionFilters == clearTransactionFilters /\ UNCHANGED history

\* Spec: the handlers of the two stores.  The add forms keep their initial
\* category and priority here; SpecAdd chooses them.
Next ==
    \/ TypeNewTask
    \/ AddTask
    \/ SelectTask
    \/ DeleteTask
    \/ ClearTasks
    \/ MarkDone
    \/ SortTasks
    \/ ClearFilters
    \/ PickFile
    \/ ReadDone
    \/ ReadFailed
    \/ TypeAmount
    \/ TypeDescription
    \/ ChooseTransactionType
    \/ AddTransaction
    \/ SelectTransaction
    \/ DeleteTransaction
    \/ ClearTransactions
    \/ ChooseFilterType
    \/ ClearTransactionFilters
    \/ ChooseTab
    \/ TypeSearch
    \/ ChooseFilterCategory
    \/ ChooseFilterPriority

Spec == Init /\ [][Next]_vars

-----------------------------------------------------------------------------
(* SpecAdd: the add forms alone, from the empty store, with the history of  *)
(* the handler names and of the number of adds whose input passed.          *)

\* Validation of the add forms as the specification words it.
textPasses == trim(newTask) # <<>>

amountPasses == amount # <<>> /\ ~parseFloat(amount).isNaN /\ parseFloat(amount).value > 0

descriptionPasses == trim(description) # <<>>

CountedAddTask ==
    /\ add_task
    /\ lastOp' = "add_task"
    /\ validAdds' = validAdds + (IF textPasses THEN 1 ELSE 0)
    /\ UNCHANGED <<exportedFrom, changedDuring>>

CountedAddTransaction ==
    /\ addTransaction
    /\ lastOp' = "addTransaction"
    /\ validAdds' = validAdds + (IF amountPasses /\ descriptionPasses THEN 1 ELSE 0)
    /\ UNCHANGED <<exportedFrom, changedDuring>>

FormNewTask ==
    \E v \in TypedTexts :
        /\ setNewTask(v)
        /\ lastOp' = "setNewTask"
        /\ UNCHANGED counters
FormCategory ==
    \E c \in ChosenCategories :
        /\ Todo
        /\ setCategory(c)
        /\ lastOp' = "setCategory"
        /\ UNCHANGED counters
FormPriority ==
    \E p \in ChosenPriorities :
        /\ setPriority(p)
        /\ lastOp' = "setPriority"
        /\ UNCHANGED counters
FormAmount ==
    \E v \in TypedAmounts :
        /\ setAmount(v)
        /\ lastOp' = "setAmount"
        /\ UNCHANGED counters
FormDescription ==
    \E v \in TypedTexts :
        /\ setDescription(v)
        /\ lastOp' = "setDescription"
        /\ UNCHANGED counters
FormTransactionType ==
    \E ty \in TransactionType :
        /\ setTransactionType(ty)
        /\ lastOp' = "setTransactionType"
        /\ UNCHANGED counters
RowTask == selectTask /\ lastOp' = "selectTask" /\ UNCHANGED counters
RowTransaction == selectTransaction /\ lastOp' = "selectTransaction" /\ UNCHANGED counters

NextAdd ==
    \/ FormNewTask
    \/ FormCategory
    \/ FormPriority
    \/ CountedAddTask
    \/ RowTask
    \/ FormAmount
    \/ FormDescription
    \/ FormTransactionType
    \/ CountedAddTransaction
    \/ RowTransaction

SpecAdd == Init /\ [][NextAdd]_vars

-----------------------------------------------------------------------------
(* SpecImport: the import of every file of the model into a todo store      *)
(* filled by add, with the history of the handler names.                    *)

ImportNewTask ==
    \E v \in PlainTexts :
        /\ setNewTask(v)
        /\ lastOp' = "setNewTask"
        /\ UNCHANGED counters
ImportAddTask == add_task /\ lastOp' = "add_task" /\ UNCHANGED counters
ImportRowTask == selectTask /\ lastOp' = "selectTask" /\ UNCHANGED counters
ImportPickFile ==
    \E f \in RejectedFiles \cup AcceptedFiles :
        /\ BagCardinality(reads) < MaxReads
        /\ handleFileImport(f)
        /\ lastOp' = "handleFileImport"
        /\ UNCHANGED counters
ImportReadDone ==
    \E f \in BagToSet(reads) :
        /\ onload(f)
        /\ lastOp' = "onload"
        /\ UNCHANGED counters
ImportReadFailed ==
    \E f \in BagToSet(reads) :
        /\ onerror(f)
        /\ lastOp' = "onerror"
        /\ UNCHANGED counters

NextImport ==
    \/ ImportNewTask
    \/ ImportAddTask
    \/ ImportRowTask
    \/ ImportPickFile
    \/ ImportReadDone
    \/ ImportReadFailed

InitTodo == Init /\ Todo

SpecImport == InitTodo /\ [][NextImport]_vars

-----------------------------------------------------------------------------
(* SpecRoundTrip: Save followed by the import of the saved file, over the   *)
(* collections that add and import build, with the history of the           *)
(* collection that the last Save serialized.                                *)

RoundTripFiles == {HugeIdFile, NoCreatedAtFile, UnknownCategoryFile}

RoundTripNewTask == \E v \in PlainTexts : setNewTask(v) /\ UNCHANGED history
RoundTripAddTask == add_task /\ UNCHANGED history
RoundTripPickFile ==
    \E f \in RoundTripFiles :
        /\ BagCardinality(reads) < MaxReads
        /\ handleFileImport(f)
        /\ UNCHANGED history
RoundTripPickSaved ==
    /\ BagCardinality(reads) < MaxReads
    /\ handleFileImport(download)
    /\ UNCHANGED history
RoundTripReadDone == \E f \in BagToSet(reads) : onload(f) /\ UNCHANGED history
RoundTripSave ==
    /\ saveTasksToFile
    /\ exportedFrom' = tasks
    /\ UNCHANGED <<lastOp, validAdds, changedDuring>>

NextRoundTrip ==
    \/ RoundTripNewTask
    \/ RoundTripAddTask
    \/ RoundTripPickFile
    \/ RoundTripPickSaved
    \/ RoundTripReadDone
    \/ RoundTripSave

SpecRoundTrip == InitTodo /\ [][NextRoundTrip]_vars

-----------------------------------------------------------------------------
(* Claims. *)

idsDistinct(records) ==
    \A i, j \in 1 .. Len(records) : i # j => records[i].id # records[j].id

idsOf(records) == {records[i].id : i \in 1 .. Len(records)}

\* records with the element at index i removed
removeAt(records, i) == SubSeq(records, 1, i - 1) \o SubSeq(records, i + 1, Len(records))

\* C1: in every reachable state of either store the ids of the records of the
\* collection are pairwise distinct.
C1_IdsPairwiseDistinct == idsDistinct(tasks) /\ idsDistinct(transactions)

\* C2: in every reachable state of either store the selected id is none or the
\* id of a record of the collection.
C2_SelectionRefersToRecord ==
    /\ selectedTaskId # null => selectedTaskId \in idsOf(tasks)
    /\ selectedTransactionId # null => selectedTransactionId \in idsOf(transactions)

\* A selection is present in a store of two records while a filter is set, or
\* after an import.
C2_Witness ==
    \/ /\ selectedTaskId # null
       /\ Len(tasks) = 2
       /\ filterPriority # "All"
    \/ /\ selectedTransactionId # null
       /\ Len(transactions) = 2
       /\ searchTerm # <<>>

\* What C3 states of a delete step on a collection with the selection sel.
deletesExactlySelected(records, sel, recordsAfter, selAfter) ==
    IF sel # null
    THEN /\ Len(recordsAfter) = Len(records) - 1
         /\ \E i \in 1 .. Len(records) :
                /\ records[i].id = sel
                /\ recordsAfter = removeAt(records, i)
         /\ selAfter = null
    ELSE recordsAfter = records /\ selAfter = sel

\* C3: Delete with a selection present removes exactly the one record whose id is
\* the selected id, keeps the other records in their order and sets the selection
\* to none; Delete with no selection changes neither.  Both stores.
C3_DeleteRemovesExactlyOne ==
    [][ /\ delete_task =>
            deletesExactlySelected(tasks, selectedTaskId, tasks', selectedTaskId')
        /\ deleteTransaction =>
            deletesExactlySelected(transactions, selectedTransactionId,
                                   transactions', selectedTransactionId') ]_vars

\* C4: from the empty store, after any sequence of adds the length of the
\* collection is the number of adds whose input passed validation.
C4_LengthCountsValidAdds ==
    /\ Todo => Len(tasks) = validAdds
    /\ Wallet => Len(transactions) = validAdds

\* Adds have passed and adds have failed validation: the form holds a rejected
\* input after an add, and the collection is not empty.
C4_Witness ==
    \/ lastOp = "add_task" /\ validAdds = 2 /\ newTask = <<" ">>
    \/ lastOp = "addTransaction" /\ validAdds = 2 /\ amount = <<"0">>

\* C5: an add whose input fails validation creates no record, leaves the
\* collection, the selection and the pending input fields unchanged and raises
\* no alert.
C5_RejectedAddChangesNothing ==
    [][ /\ (lastOp' = "add_task" /\ ~textPasses) =>
            /\ UNCHANGED <<tasks, selectedTaskId, newTask, category, priority>>
            /\ alertMsg' = "none"
        /\ (lastOp' = "addTransaction" /\ ~(amountPasses /\ descriptionPasses)) =>
            /\ UNCHANGED <<transactions, selectedTransactionId, amount, description,
                           category, transactionType>>
            /\ alertMsg' = "none" ]_vars

\* An add has just run on a rejected input, with records and a selection present.
C5_Witness ==
    \/ lastOp = "add_task" /\ newTask = <<" ">> /\ tasks # <<>> /\ selectedTaskId # null
    \/ /\ lastOp = "addTransaction"
       /\ amount = <<"-", "5">>
       /\ descriptionPasses
       /\ transactions # <<>>
       /\ selectedTransactionId # null

\* C6: a successful add appends exactly one record at the end, leaves the stored
\* records, their order and the selection unchanged; a new task has
\* completed = false, the trimmed text and the category and priority of the form.
C6_AddAppendsOneRecord ==
    [][ /\ (lastOp' = "add_task" /\ textPasses) =>
            /\ Len(tasks') = Len(tasks) + 1
            /\ SubSeq(tasks', 1, Len(tasks)) = tasks
            /\ tasks'[Len(tasks')].completed = FALSE
            /\ tasks'[Len(tasks')].text = trim(newTask)
            /\ tasks'[Len(tasks')].category = category
            /\ tasks'[Len(tasks')].priority = priority
            /\ selectedTaskId' = selectedTaskId
        /\ (lastOp' = "addTransaction" /\ amountPasses /\ descriptionPasses) =>
            /\ Len(transactions') = Len(transactions) + 1
            /\ SubSeq(transactions', 1, Len(transactions)) = transactions
            /\ selectedTransactionId' = selectedTransactionId ]_vars

\* A second record has just been appended while a selection was present; the
\* new task carries a trimmed text and a category and priority chosen in the form.
C6_Witness ==
    \/ /\ lastOp = "add_task"
       /\ Len(tasks) = 2
       /\ selectedTaskId # null
       /\ tasks[2].text = <<"a">>
       /\ tasks[2].category = "Shopping"
       /\ tasks[2].priority = "Critical"
    \/ /\ lastOp = "addTransaction"
       /\ Len(transactions) = 2
       /\ selectedTransactionId # null

\* What C7 calls a file to reject: not JSON, no tasks member that is an array,
\* or an element of tasks without one of the five keys.
toReject(content) ==
    \/ ~content.wellFormed
    \/ content.top # "object"
    \/ content.tasksKind # "array"
    \/ \E i \in 1 .. Len(content.elems) :
            \/ ~content.elems[i].isObject
            \/ \E k \in {"id", "text", "completed", "category", "priority"} :
                    k \notin DOMAIN content.elems[i].fields

ErrorAlerts ==
    {"Invalid file format. Please check that the JSON contains valid task data.",
     "Invalid file format. Expected a JSON file with tasks array.",
     "Error reading file. Please make sure it's a valid JSON file."}

\* C7: the import of a file to reject raises an error message and leaves the
\* collection and the selection unchanged.
C7_MalformedImportRejected ==
    [][ \A f \in BagToSet(reads) :
            (lastOp' = "onload" /\ onload(f) /\ toReject(f)) =>
                /\ alertMsg' \in ErrorAlerts
                /\ UNCHANGED <<tasks, selectedTaskId>> ]_vars

\* The import of a file with an element without a key has just been rejected
\* while the store held a record and a selection.
C7_Witness ==
    /\ lastOp = "onload"
    /\ alertMsg = "Invalid file format. Please check that the JSON contains valid task data."
    /\ tasks # <<>>
    /\ selectedTaskId # null

\* C8: importing the file that Save wrote for the collection S yields S.
C8_ExportImportRoundTrip ==
    [][ \A f \in BagToSet(reads) :
            (onload(f) /\ download # NoFile /\ f = download) => tasks' = exportedFrom ]_vars

\* C9: a successful import replaces the collection by exactly the tasks array of
\* the file, in file order, and sets the selection to none.
C9_ImportReplacesCollection ==
    [][ \A f \in BagToSet(reads) :
            (lastOp' = "onload" /\ onload(f) /\ ~toReject(f)) =>
                /\ Len(tasks') = Len(f.elems)
                /\ \A i \in 1 .. Len(f.elems) : tasks'[i] = JSONparseObject(f.elems[i].fields)
                /\ selectedTaskId' = null ]_vars

\* An import has just succeeded with a file of two tasks.
C9_Witness ==
    /\ lastOp = "onload"
    /\ alertMsg = "Tasks imported successfully!"
    /\ Len(tasks) = 2
    /\ tasks[1].id = 2

\* C10: when the read of an import fails, an error message is reported and the
\* collection and the selection are unchanged.
C10_ReadErrorReported ==
    [][ lastOp' = "onerror" =>
            /\ alertMsg' \in ErrorAlerts
            /\ UNCHANGED <<tasks, selectedTaskId>> ]_vars

-----------------------------------------------------------------------------
(* Specification of the priority sort: the page holds any collection of up   *)
(* to MaxDrawn tasks and the user presses "Sort by Priority".                *)

\* The page showing the collections ts and trs, every other cell as constructed.
Showing(a, ts, trs) ==
    /\ app = a
    /\ tasks = ts
    /\ newTask = <<>>
    /\ selectedTaskId = null
    /\ priority = "Medium"
    /\ filterPriority = "All"
    /\ reads = EmptyBag
    /\ download = NoFile
    /\ transactions = trs
    /\ amount = <<>>
    /\ description = <<>>
    /\ selectedTransactionId = null
    /\ transactionType = "expense"
    /\ filterType = "All"
    /\ budget = 0
    /\ budgetInput = <<>>
    /\ activeTab = "transactions"
    /\ category = IF a = "todo" THEN "Work" ELSE "Personal"
    /\ searchTerm = <<>>
    /\ filterCategory = "All"
    /\ alertMsg = "none"
    /\ lastOp = "init"
    /\ validAdds = 0
    /\ exportedFrom = <<>>
    /\ changedDuring = {}

\* The sequences of 0 .. MaxDrawn shapes; the record at position i is made from the
\* i-th shape and has id i.
Drawn(Shapes) == UNION { [1 .. n -> Shapes] : n \in 0 .. MaxDrawn }

\* The priorities of the form and one that only an imported file can carry.
SortPriorities == Priority \cup {"Urgent"}

sortTask(i, pri) == taskLit(i, <<"a">>, pri)

InitSort ==
    \E d \in Drawn(SortPriorities) :
        Showing("todo", [i \in DOMAIN d |-> sortTask(i, d[i])], <<>>)

NextSort ==
    \/ sortTasksByPriority /\ lastOp' = "sortTasksByPriority" /\ UNCHANGED counters
    \/ selectTask /\ lastOp' = "selectTask" /\ UNCHANGED counters

SpecSort == InitSort /\ [][NextSort]_vars

-----------------------------------------------------------------------------
(* C11, C12: sort by priority. *)

\* The rank table of the specification.
rankTable == [Critical |-> 0, High |-> 1, Medium |-> 2, Low |-> 3]

\* after is before rearranged by a permutation that keeps records of equal priority in order.
isStablePermutation(before, after) ==
    /\ Len(after) = Len(before)
    /\ \E perm \in [1 .. Len(before) -> 1 .. Len(before)] :
           /\ \A i, j \in 1 .. Len(before) : i # j => perm[i] # perm[j]
           /\ \A i \in 1 .. Len(before) : after[i] = before[perm[i]]
           /\ \A i, j \in 1 .. Len(before) :
                  (i < j /\ after[i].priority = after[j].priority) => perm[i] < perm[j]

\* Records whose priority is in the rank table appear in ascending rank.
ascendingByRank(records) ==
    \A i, j \in 1 .. Len(records) :
        (/\ i < j
         /\ records[i].priority \in DOMAIN rankTable
         /\ records[j].priority \in DOMAIN rankTable)
            => rankTable[records[i].priority] <= rankTable[records[j].priority]

hasTie(records) ==
    \E i, j \in 1 .. Len(records) : i < j /\ records[i].priority = records[j].priority

\* C11: pressing "Sort by Priority" leaves a permutation of the collection that is
\* ascending by the rank table Critical=0, High=1, Medium=2, Low=3 and keeps tasks of
\* equal priority in the order they had before.
C11_SortIsStableAscendingPermutation ==
    [][ lastOp' = "sortTasksByPriority" =>
            /\ isStablePermutation(tasks, tasks')
            /\ ascendingByRank(tasks') ]_vars

\* A sort has moved a task forward over tasks that tie with each other.
C11_Witness ==
    /\ lastOp = "sortTasksByPriority"
    /\ hasTie(tasks)
    /\ \E i, j \in 1 .. Len(tasks) : i < j /\ tasks[i].id > tasks[j].id

\* C12: sorting is idempotent: sorting the collection a sort has left gives that
\* collection again.
C12_SortIsIdempotent ==
    lastOp = "sortTasksByPriority" => sortedByPriority(tasks) = tasks

\* A sort has run on a collection with a tie and with a priority outside the rank table.
C12_Witness ==
    /\ lastOp = "sortTasksByPriority"
    /\ hasTie(tasks)
    /\ \E i \in 1 .. Len(tasks) : tasks[i].priority \notin DOMAIN rankTable
    /\ \E i \in 1 .. Len(tasks) : tasks[i].priority \in DOMAIN rankTable

-----------------------------------------------------------------------------
(* C13: statistics. *)

\* C13: in every state of the todo page, states after an import included, pending is
\* total minus completed, the counts of the five categories sum to the total and the
\* counts of the four priorities sum to the total.
C13_StatsSumToTotal ==
    LET stats == getStats
    IN  Todo =>
            /\ stats.totalTasks = Len(tasks)
            /\ stats.pendingTasks = stats.totalTasks - stats.completedTasks
            /\ stats.categoryStats.Work + stats.categoryStats.Personal
                   + stats.categoryStats.Shopping + stats.categoryStats.Others
                   + stats.categoryStats.Home = stats.totalTasks
            /\ stats.priorityStats.Critical + stats.priorityStats.High
                   + stats.priorityStats.Medium + stats.priorityStats.Low = stats.totalTasks

-----------------------------------------------------------------------------
(* Specifications of the analytics and budget tabs: the wallet holds any     *)
(* collection of up to MaxDrawn transactions; the user changes tab and, on   *)
(* the budget tab, sets the budget.                                          *)

\* Amounts of the transactions the wallet holds.
DrawnAmounts == {40, 50, 120}

\* Texts the number input of the budget tab hands to setBudgetInput.
BudgetInputs == { <<>>, <<"0">>, <<"1", "0", "0">>, <<"2", "0", "0">> }

analyticsTransaction(i, shape) ==
    [id |-> i, amount |-> shape[1], type |-> shape[2], description |-> <<"a">>,
     category |-> shape[3], createdAt |-> toLocaleString(i)]

budgetTransaction(i, shape) == analyticsTransaction(i, <<shape[1], shape[2], "Personal">>)

InitAnalytics ==
    \E d \in Drawn(DrawnAmounts \X TransactionType \X ChosenCategories) :
        Showing("wallet", <<>>, [i \in DOMAIN d |-> analyticsTransaction(i, d[i])])

NextAnalytics ==
    \/ \E tab \in Tabs : setActiveTab(tab) /\ UNCHANGED history
    \/ clearAllTransactions /\ UNCHANGED history

SpecAnalytics == InitAnalytics /\ [][NextAnalytics]_vars

InitBudget ==
    \E d \in Drawn(DrawnAmounts \X TransactionType) :
        Showing("wallet", <<>>, [i \in DOMAIN d |-> budgetTransaction(i, d[i])])

NextBudget ==
    \/ \E tab \in Tabs : setActiveTab(tab) /\ UNCHANGED history
    \/ \E v \in BudgetInputs : setBudgetInput(v) /\ UNCHANGED history
    \/ setBudgetAmount /\ UNCHANGED history
    \/ clearAllTransactions /\ UNCHANGED history

SpecBudget == InitBudget /\ [][NextBudget]_vars

-----------------------------------------------------------------------------
(* C14 .. C18: budget tracking and analytics. *)

\* The sum of f over the index set I.
RECURSIVE sumOf(_, _)
sumOf(f, I) ==
    IF I = {} THEN 0
    ELSE LET i == CHOOSE i \in I : TRUE IN f[i] + sumOf(f, I \ {i})

amounts == [i \in DOMAIN transactions |-> transactions[i].amount]

expenseIndexes == {i \in DOMAIN transactions : transactions[i].type = "expense"}

incomeIndexes == {i \in DOMAIN transactions : transactions[i].type = "income"}

\* E, the total expense amount.
totalExpense == sumOf(amounts, expenseIndexes)

\* C14: when the budget is exceeded (E >= B > 0) the notice reports the unclamped
\* percentage E / B * 100 minus 100 as the exceeded-by figure (20.0 for B = 100, E = 120).
C14_ExceededByIsUnclamped ==
    (Wallet /\ activeTab = "budget" /\ budget > 0 /\ totalExpense >= budget) =>
        /\ budgetNotice.shown
        /\ budgetNotice.exceeded
        /\ budgetNotice.figure =
               toFixed1([num |-> totalExpense * 100 - 100 * budget, den |-> budget])

\* C15: remaining = max(0, B - E); percentageSpent = min(100, max(0, E / B * 100)) when
\* B > 0 and 0 otherwise; remaining is within [0, B] and percentageSpent within [0, 100].
C15_BudgetDataClamped ==
    LET data == getBudgetData
        B == budget
        E == totalExpense
        p == data.percentageSpent
    IN  Wallet =>
            /\ data.remaining = (IF B - E > 0 THEN B - E ELSE 0)
            /\ B > 0 =>
                   IF E * 100 > 100 * B THEN p.num = 100 * p.den
                   ELSE IF E * 100 < 0 THEN p.num = 0
                   ELSE p.num * B = E * 100 * p.den
            /\ B <= 0 => p.num = 0
            /\ 0 <= data.remaining /\ data.remaining <= B
            /\ p.den > 0 /\ 0 <= p.num /\ p.num <= 100 * p.den

\* The budget tab shows a budget that the expenses exceed.
C15_Witness ==
    /\ Wallet
    /\ activeTab = "budget"
    /\ budget > 0
    /\ totalExpense > budget
    /\ incomeIndexes # {}

\* C16: the notice puts the percentage spent in exactly one band: at most 50 ok (green),
\* above 50 and at most 80 warn (yellow), above 80 and below 100 near-limit (orange),
\* 100 or more exceeded (red).
C16_NoticeBands ==
    LET B == budget
        E == totalExpense
    IN  (Wallet /\ activeTab = "budget" /\ B > 0) =>
            /\ budgetNotice.shown
            /\ budgetNotice.colour =
                   (IF E * 100 <= 50 * B THEN "green"
                    ELSE IF E * 100 <= 80 * B THEN "yellow"
                    ELSE IF E * 100 < 100 * B THEN "orange"
                    ELSE "red")
            /\ budgetNotice.exceeded <=> (E * 100 >= 100 * B)

\* The budget tab shows expenses of exactly 80 percent of the budget.
C16_Witness ==
    /\ Wallet
    /\ activeTab = "budget"
    /\ budget > 0
    /\ totalExpense * 100 = 80 * budget

\* C17: totalIncome and totalExpenses are the sums of the amounts of the income and of
\* the expense transactions, netSavings is their difference and largestExpense is the
\* largest expense amount, 0 when there is no expense.
C17_AnalyticsTotals ==
    LET data == getAnalyticsData
    IN  Wallet =>
            /\ data.totalIncome = sumOf(amounts, incomeIndexes)
            /\ data.totalExpenses = sumOf(amounts, expenseIndexes)
            /\ data.netSavings = sumOf(amounts, incomeIndexes) - sumOf(amounts, expenseIndexes)
            /\ IF expenseIndexes = {}
               THEN data.largestExpense = 0
               ELSE /\ \E i \in expenseIndexes : data.largestExpense = amounts[i]
                    /\ \A i \in expenseIndexes : amounts[i] <= data.largestExpense

\* The analytics tab shows an income larger than every expense and a larger expense
\* before a smaller one.
C17_Witness ==
    /\ Wallet
    /\ activeTab = "analytics"
    /\ \E k \in incomeIndexes : \A i \in expenseIndexes : amounts[k] > amounts[i]
    /\ \E i, j \in expenseIndexes : i < j /\ amounts[i] > amounts[j]

-----------------------------------------------------------------------------
(* Specification of the search and the filters: either page holds any        *)
(* collection of up to MaxDrawn records and the user edits the search term   *)
(* and the two filters.                                                      *)

\* Display texts of the records the pages hold.
FilterTexts == { <<"a">>, <<"a", "B">> }

\* Search terms typed into the search box.
FilterSearches == { <<>>, <<"B">>, <<"A", "b">> }

filterTask(i, shape) ==
    [taskLit(i, shape[1], shape[3]) EXCEPT !.category = shape[2]]

filterTransaction(i, shape) ==
    [id |-> i, amount |-> 50, type |-> shape[3], description |-> shape[1],
     category |-> shape[2], createdAt |-> toLocaleString(i)]

InitFilter ==
    \/ \E d \in Drawn(FilterTexts \X ChosenCategories \X {"High", "Low"}) :
           Showing("todo", [i \in DOMAIN d |-> filterTask(i, d[i])], <<>>)
    \/ \E d \in Drawn(FilterTexts \X ChosenCategories \X TransactionType) :
           Showing("wallet", <<>>, [i \in DOMAIN d |-> filterTransaction(i, d[i])])

NextFilter ==
    \/ \E v \in FilterSearches : setSearchTerm(v) /\ UNCHANGED history
    \/ \E c \in {"All", "Shopping"} : setFilterCategory(c) /\ UNCHANGED history
    \/ \E p \in {"All", "High"} : setFilterPriority(p) /\ UNCHANGED history
    \/ \E ty \in {"All", "income"} : setFilterType(ty) /\ UNCHANGED history
    \/ clearFilters /\ UNCHANGED history
    \/ clearTransactionFilters /\ UNCHANGED history

SpecFilter == InitFilter /\ [][NextFilter]_vars

-----------------------------------------------------------------------------
(* C19, C20: search and filters. *)

sameLetter(c, d) == c = d \/ {c, d} = {"a", "A"} \/ {c, d} = {"b", "B"}

\* term occurs in text as a contiguous substring, letters compared without case.
containsIgnoringCase(text, term) ==
    \E offset \in 0 .. (Len(text) - Len(term)) :
        \A k \in 1 .. Len(term) : sameLetter(text[offset + k], term[k])

\* The records at the indexes I, in the order of the collection.
restrictedTo(records, I) ==
    LET n == Cardinality(I)
        at == CHOOSE f \in [1 .. n -> I] : \A a, b \in 1 .. n : a < b => f[a] < f[b]
    IN  [k \in 1 .. n |-> records[at[k]]]

\* part lists some records of whole in the order they have in whole.
isSubsequence(part, whole) ==
    \E f \in [1 .. Len(part) -> 1 .. Len(whole)] :
        /\ \A a, b \in 1 .. Len(part) : a < b => f[a] < f[b]
        /\ \A k \in 1 .. Len(part) : part[k] = whole[f[k]]

wantedTasks ==
    {i \in DOMAIN tasks :
        /\ containsIgnoringCase(tasks[i].text, searchTerm)
        /\ (filterCategory = "All" \/ tasks[i].category = filterCategory)
        /\ (filterPriority = "All" \/ tasks[i].priority = filterPriority)}

wantedTransactions ==
    {i \in DOMAIN transactions :
        /\ containsIgnoringCase(transactions[i].description, searchTerm)
        /\ (filterCategory = "All" \/ transactions[i].category = filterCategory)
        /\ (filterType = "All" \/ transactions[i].type = filterType)}

\* C19: the filtered view is exactly the records, in collection order, whose text
\* contains the search term without regard to case and whose category and priority
\* (type) equal the filters that are not All; with an empty search and both filters
\* All it is the whole collection.
C19_FilterSelectsMatchingRecords ==
    /\ Todo =>
           /\ getFilteredTasks = restrictedTo(tasks, wantedTasks)
           /\ (searchTerm = <<>> /\ filterCategory = "All" /\ filterPriority = "All")
                  => getFilteredTasks = tasks
    /\ Wallet =>
           /\ getFilteredTransactions = restrictedTo(transactions, wantedTransactions)
           /\ (searchTerm = <<>> /\ filterCategory = "All" /\ filterType = "All")
                  => getFilteredTransactions = transactions

\* The three tests are set on the todo page; a task passes by a letter of the other
\* case and another task fails.
C19_Witness ==
    /\ Todo
    /\ searchTerm # <<>>
    /\ filterCategory # "All"
    /\ filterPriority # "All"
    /\ getFilteredTasks # <<>>
    /\ Len(getFilteredTasks) < Len(tasks)
    /\ \E i \in wantedTasks : ~includes(tasks[i].text, searchTerm)

\* C20: filtering the filtered view again with the same search term and filters gives
\* the same view, and the view lists records in the order of the collection.
C20_FilterIdempotentAndOrdered ==
    /\ Todo =>
           /\ getFilteredTasksOf(getFilteredTasks, searchTerm, filterCategory,
                                 filterPriority) = getFilteredTasks
           /\ isSubsequence(getFilteredTasks, tasks)
    /\ Wallet =>
           /\ getFilteredTransactionsOf(getFilteredTransactions, searchTerm,
                                        filterCategory, filterType)
                  = getFilteredTransactions
           /\ isSubsequence(getFilteredTransactions, transactions)

\* The wallet shows two or more transactions under a search term and a filter that
\* leave another transaction out.
C20_Witness ==
    /\ Wallet
    /\ searchTerm # <<>>
    /\ filterType # "All"
    /\ Len(getFilteredTransactions) >= 2
    /\ Len(getFilteredTransactions) < Len(transactions)

-----------------------------------------------------------------------------
(* C21: the search and the filters are a read-side projection. *)

\* C21: a step that changes the search term, the category filter or the secondary
\* filter (Clear Filters included) leaves both collections and both selections as
\* they are.
C21_FilterChangeKeepsStore ==
    [][ (\/ searchTerm' # searchTerm
         \/ filterCategory' # filterCategory
         \/ filterPriority' # filterPriority
         \/ filterType' # filterType)
            => UNCHANGED <<tasks, selectedTaskId, transactions, selectedTransactionId>> ]_vars

\* A task was selected and the search or a filter then took it out of the view.
C21_Witness ==
    /\ Todo
    /\ selectedTaskId # null
    /\ \E i \in DOMAIN tasks : tasks[i].id = selectedTaskId
    /\ \A k \in DOMAIN getFilteredTasks : getFilteredTasks[k].id # selectedTaskId

-----------------------------------------------------------------------------
(* C22: toggle. *)

\* after is before with the completed flag of the record at position i flipped.
flipsOnlyAt(before, after, i) ==
    after = [before EXCEPT ![i] = [before[i] EXCEPT !.completed = ~before[i].completed]]

\* C22: with a selection, Mark Done flips completed of the one record whose id is the
\* selected id and changes no other record, no other field, not the order and not the
\* selection; without a selection it changes nothing.
C22_ToggleFlipsExactlySelected ==
    [][ mark_done =>
            IF selectedTaskId = null
            THEN UNCHANGED <<tasks, selectedTaskId>>
            ELSE /\ \E i \in DOMAIN tasks :
                        tasks[i].id = selectedTaskId /\ flipsOnlyAt(tasks, tasks', i)
                 /\ UNCHANGED selectedTaskId ]_vars

(* C24: records are immutable but for completed. *)
\* The fields of a task that no operation may change.
fixedFields(task) ==
    [k \in {"id", "text", "createdAt", "category", "priority"} \cap DOMAIN task |-> task[k]]

\* The records of a collection with their multiplicities.
bagOf(records) ==
    [r \in {records[i] : i \in DOMAIN records} |->
        Cardinality({i \in DOMAIN records : records[i] = r})]

\* after holds the records of before and one new record at the end.
appendsOne(before, after) ==
    Len(after) = Len(before) + 1 /\ SubSeq(after, 1, Len(before)) = before

\* C24: a step that is not an import either adds one record at the end, or carries
\* records over whole (removing or reordering some), or is Mark Done, which changes
\* nothing but completed and that only of a task with the selected id; transactions are
\* only added at the end, removed or carried over whole.
C24_RecordsImmutable ==
    [][ reads' = reads =>
            /\ \/ appendsOne(tasks, tasks')
               \/ bagOf(tasks') \sqsubseteq bagOf(tasks)
               \/ /\ mark_done
                  /\ Len(tasks') = Len(tasks)
                  /\ \A i \in DOMAIN tasks :
                        /\ fixedFields(tasks'[i]) = fixedFields(tasks[i])
                        /\ tasks'[i].completed # tasks[i].completed =>
                                tasks[i].id = selectedTaskId
            /\ \/ appendsOne(transactions, transactions')
               \/ bagOf(transactions') \sqsubseteq bagOf(transactions) ]_vars

\* Two tasks with different ids, one toggled to completed and the other not.
C24_Witness ==
    /\ Todo
    /\ Len(tasks) = 2
    /\ tasks[1].id # tasks[2].id
    /\ tasks[1].completed # tasks[2].completed
    /\ fixedFields(tasks[1]) # fixedFields(tasks[2])

(* C25: operations during a read. *)
\* C25: while the read of an import is in flight (started, and neither completed nor
\* failed), no add, select or further import runs: the next store operation is the
\* callback of the read.
C25_NoOperationDuringRead ==
    [][ BagCardinality(reads) > 0 =>
            lastOp' \notin {"add_task", "selectTask", "handleFileImport"} ]_vars

(* C27: enumerated fields. *)
\* C27: in every state of the todo page, states after a successful import included,
\* every task's category is one of the five categories and its priority one of the four
\* priorities.
C27_CategoryAndPriorityInEnum ==
    Todo => \A i \in DOMAIN tasks :
                tasks[i].category \in Category /\ tasks[i].priority \in Priority

(* C29: acting on a hidden selection. *)
\* A record carrying the selected id is not in the filtered view.
selectedTaskHidden ==
    /\ selectedTaskId # null
    /\ \E i \in DOMAIN tasks :
          /\ tasks[i].id = selectedTaskId
          /\ ~matchesTask(tasks[i], searchTerm, filterCategory, filterPriority)

selectedTransactionHidden ==
    /\ selectedTransactionId # null
    /\ \E i \in DOMAIN transactions :
          /\ transactions[i].id = selectedTransactionId
          /\ ~matchesTransaction(transactions[i], searchTerm, filterCategory, filterType)

\* C29: when the selected record is hidden by the filters, Delete and Mark Done leave
\* the visible records as they were.
C29_HiddenSelectionLeavesViewUnchanged ==
    [][ /\ (selectedTaskHidden /\ (delete_task \/ mark_done)) =>
                getFilteredTasks' = getFilteredTasks
        /\ (selectedTransactionHidden /\ deleteTransaction) =>
                getFilteredTransactions' = getFilteredTransactions ]_vars

-----------------------------------------------------------------------------
(* Clearing and budget setting. Either page holds up to MaxDrawn records;    *)
(* the user selects rows, clears the collection and, in the wallet, sets the *)
(* budget from the texts of TypedBudgets.                                    *)

\* Texts the number input of the budget tab hands to setBudgetInput: empty, zero,
\* negative, not a number, and two positive numbers.
TypedBudgets == { <<>>, <<"0">>, <<"-", "5">>, <<"a">>, <<"7">>, <<"1", "0", "0">> }

InitClear ==
    \/ \E d \in Drawn({"Low"}) :
           Showing("todo", [i \in DOMAIN d |-> sortTask(i, d[i])], <<>>)
    \/ \E d \in Drawn({50} \X TransactionType) :
           Showing("wallet", <<>>, [i \in DOMAIN d |-> budgetTransaction(i, d[i])])

NextClear ==
    \/ selectTask /\ lastOp' = "selectTask" /\ UNCHANGED counters
    \/ mark_done /\ lastOp' = "mark_done" /\ UNCHANGED counters
    \/ clear_task /\ lastOp' = "clear_task" /\ UNCHANGED counters
    \/ selectTransaction /\ lastOp' = "selectTransaction" /\ UNCHANGED counters
    \/ clearAllTransactions /\ lastOp' = "clearAllTransactions" /\ UNCHANGED counters
    \/ \E tab \in Tabs : setActiveTab(tab) /\ lastOp' = "setActiveTab" /\ UNCHANGED counters
    \/ \E v \in TypedBudgets :
           setBudgetInput(v) /\ lastOp' = "setBudgetInput" /\ UNCHANGED counters
    \/ setBudgetAmount /\ lastOp' = "setBudgetAmount" /\ UNCHANGED counters

SpecClear == InitClear /\ [][NextClear]_vars

(* C23: clear. *)
\* C23: a Clear step leaves the collection empty and the selection none, whatever the
\* collection and the selection were before, and in the wallet it leaves the budget as
\* it was.
C23_ClearEmptiesAndKeepsBudget ==
    [][ lastOp' \in {"clear_task", "clearAllTransactions"} =>
            /\ tasks' = <<>>
            /\ selectedTaskId' = null
            /\ transactions' = <<>>
            /\ selectedTransactionId' = null
            /\ budget' = budget ]_vars

\* The wallet was cleared while a budget was set, and the budget is still there.
C23_Witness ==
    /\ Wallet
    /\ lastOp = "clearAllTransactions"
    /\ transactions = <<>>
    /\ selectedTransactionId = null
    /\ budget > 0

(* C26: the budget. *)
\* The text parses to a number greater than zero.
parsesPositive(text) == ~parseFloat(text).isNaN /\ parseFloat(text).value > 0

\* C26: the budget is 0 or positive in every state; a Set Budget step stores the parsed
\* input when it is a number > 0 and otherwise leaves the budget as it was, and no other
\* step changes the budget.
C26_BudgetUnsetOrPositive ==
    /\ [](budget >= 0)
    /\ [][ /\ lastOp' = "setBudgetAmount" =>
                  budget' = IF parsesPositive(budgetInput)
                            THEN parseFloat(budgetInput).value
                            ELSE budget
           /\ budget' # budget =>
                  lastOp' = "setBudgetAmount" /\ parsesPositive(budgetInput) ]_vars

\* Set Budget was pressed on an input that is not a positive number while a budget was
\* stored: the stored budget is still there.
C26_Witness ==
    /\ Wallet
    /\ lastOp = "setBudgetAmount"
    /\ budgetInput \in { <<"0">>, <<"-", "5">>, <<"a">> }
    /\ budget > 0

-----------------------------------------------------------------------------
(* Operations racing with imports: the user picks files that are not being   *)
(* read already and, while reads are in flight, adds, selects, toggles,      *)
(* deletes, sorts and clears.  changedDuring holds the files whose read was  *)
(* in flight when a handler changed the collection, from the start of the    *)
(* read on.                                                                  *)

\* Two accepted files with different tasks.
RaceFiles == {ValidFile, NoCreatedAtFile}

\* The history of a step of a handler that may change the collection.
changeLogged(name) ==
    /\ lastOp' = name
    /\ changedDuring' = IF tasks' # tasks
                        THEN changedDuring \cup BagToSet(reads)
                        ELSE changedDuring
    /\ UNCHANGED <<validAdds, exportedFrom>>

NextRace ==
    \/ setNewTask(<<"a">>) /\ lastOp' = "setNewTask" /\ UNCHANGED counters
    \/ selectTask /\ lastOp' = "selectTask" /\ UNCHANGED counters
    \/ add_task /\ changeLogged("add_task")
    \/ mark_done /\ changeLogged("mark_done")
    \/ delete_task /\ changeLogged("delete_task")
    \/ sortTasksByPriority /\ changeLogged("sortTasksByPriority")
    \/ clear_task /\ changeLogged("clear_task")
    \/ \E f \in RaceFiles :
           /\ ~BagIn(f, reads)
           /\ handleFileImport(f)
           /\ lastOp' = "handleFileImport"
           /\ changedDuring' = changedDuring \ {f}
           /\ UNCHANGED <<validAdds, exportedFrom>>
    \/ \E f \in BagToSet(reads) : onload(f) /\ lastOp' = "onload" /\ UNCHANGED counters

SpecRace == InitTodo /\ [][NextRace]_vars

(* C28: imports overwrite what happened during the read. *)
\* C28: when the read of an accepted file completes after the collection was changed
\* during the read, or while another read is in flight, the collection becomes exactly
\* the tasks of that file and the selection none.
C28_ImportOverwritesRacingChanges ==
    [][ \A f \in BagToSet(reads) :
            ( /\ lastOp' = "onload"
              /\ onload(f)
              /\ ~toReject(f)
              /\ (f \in changedDuring \/ BagCardinality(reads) > 1) ) =>
                /\ tasks' = parsedTasks(f)
                /\ selectedTaskId' = null ]_vars

\* The collection was changed during the read of either file; both reads have
\* completed, and the collection is the file of the read that completed last.
C28_Witness ==
    /\ lastOp = "onload"
    /\ reads = EmptyBag
    /\ changedDuring = RaceFiles
    /\ tasks = parsedTasks(NoCreatedAtFile)
    /\ selectedTaskId = null

-----------------------------------------------------------------------------
(* The header balance and the analytics totals in the arithmetic of the      *)
(* program.  Amounts are JavaScript numbers, IEEE 754 doubles; the amount    *)
(* input has step 0.01, and most decimal fractions are not doubles, so sums  *)
(* are rounded.  A double x with |x| < 8 that is a multiple of 2^-56 is      *)
(* written [hi, lo] with x = (hi * Base + lo) * 2^-56 and 0 <= lo < Base;    *)
(* sums and differences of such doubles are computed exactly and rounded to  *)
(* 53 significant bits, ties to even, as the + and - of the program do.      *)

Base == 268435456       \* 2^28

Zero == [hi |-> 0, lo |-> 0]

carried(hi, lo) == [hi |-> hi + (lo \div Base), lo |-> lo % Base]

negated(x) ==
    IF x.lo = 0 THEN [hi |-> 0 - x.hi, lo |-> 0] ELSE [hi |-> 0 - x.hi - 1, lo |-> Base - x.lo]

RECURSIVE bitLength(_)
bitLength(n) == IF n = 0 THEN 0 ELSE 1 + bitLength(n \div 2)

RECURSIVE twoToThe(_)
twoToThe(k) == IF k = 0 THEN 1 ELSE 2 * twoToThe(k - 1)

\* The double nearest to the magnitude m, ties to the even significand.
roundedMagnitude(m) ==
    LET length == IF m.hi > 0 THEN 28 + bitLength(m.hi) ELSE bitLength(m.lo)
        dropped == length - 53
    IN  IF dropped <= 0 THEN m
        ELSE LET unit == twoToThe(dropped)
                 rest == m.lo % unit
                 up == \/ 2 * rest > unit
                       \/ 2 * rest = unit /\ (m.lo \div unit) % 2 = 1
             IN  carried(m.hi, m.lo - rest + (IF up THEN unit ELSE 0))

\* x + y: the exact sum, rounded; a sum below zero (hi < 0) is rounded by magnitude.
plus(x, y) ==
    LET sum == carried(x.hi + y.hi, x.lo + y.lo)
    IN  IF sum.hi < 0 THEN negated(roundedMagnitude(negated(sum))) ELSE roundedMagnitude(sum)

\* x - y
minus(x, y) == plus(x, negated(y))

\* trs.reduce((balance, transaction) => transaction.type === 'income'
\*     ? balance + transaction.amount : balance - transaction.amount, 0)
RECURSIVE balanceOf(_)
balanceOf(trs) ==
    IF trs = <<>> THEN Zero
    ELSE LET balance == balanceOf(SubSeq(trs, 1, Len(trs) - 1))
             transaction == trs[Len(trs)]
         IN  IF transaction.type = "income"
             THEN plus(balance, transaction.amount)
             ELSE minus(balance, transaction.amount)

getCurrentBalance == balanceOf(transactions)

\* trs.reduce((sum, t) => sum + t.amount, 0) in doubles
RECURSIVE sumOfDoubles(_)
sumOfDoubles(trs) ==
    IF trs = <<>> THEN Zero
    ELSE plus(sumOfDoubles(SubSeq(trs, 1, Len(trs) - 1)), trs[Len(trs)].amount)

\* getAnalyticsData: netSavings = totalIncome - totalExpenses in doubles
netSavings == minus(sumOfDoubles(ofType("income")), sumOfDoubles(ofType("expense")))

\* The amounts of the transactions the wallet holds: what parseFloat returns for the
\* inputs 0.1 (0x1.999999999999ap-4), 0.6 (0x1.3333333333333p-1) and 0.7
\* (0x1.6666666666666p-1).
DoubleAmounts ==
    { [hi |-> 26843545, lo |-> 161061274],
      [hi |-> 161061273, lo |-> 161061272],
      [hi |-> 187904819, lo |-> 53687088] }

InitBalance ==
    \E d \in Drawn(DoubleAmounts \X TransactionType) :
        Showing("wallet", <<>>,
                [i \in DOMAIN d |->
                    [id |-> i, amount |-> d[i][1], type |-> d[i][2],
                     description |-> <<"a">>, category |-> "Personal",
                     createdAt |-> toLocaleString(i)]])

NextBalance ==
    \/ \E tab \in Tabs : setActiveTab(tab) /\ UNCHANGED history
    \/ selectTransaction /\ UNCHANGED history
    \/ deleteTransaction /\ UNCHANGED history
    \/ clearAllTransactions /\ UNCHANGED history

SpecBalance == InitBalance /\ [][NextBalance]_vars

(* C30: balance and net savings. *)
\* C30: whenever the analytics tab is open, the balance in the header and the net
\* savings of the analytics are the same number, so that one is negative exactly when
\* the other is.
C30_BalanceEqualsNetSavings ==
    (Wallet /\ activeTab = "analytics") => getCurrentBalance = netSavings

====
